---- MODULE Spec2Model ----
(***************************************************************************)
(* Model of pm25_logger.py: the polling loop of main() (fetch, flatten,    *)
(* merge into the CSV file, analyse and report on change, sleep), the      *)
(* merge of save_data_to_csv with its CSV round trip, and the top-level    *)
(* exception handlers of the script.                                       *)
(*                                                                         *)
(* Python values are records [k, n]: k names the kind of value, n is the   *)
(* number when k = "num".  Timestamps are the date-time strings of the     *)
(* API; pandas reads such a column back from CSV as the same strings.      *)
(***************************************************************************)
EXTENDS Integers, Sequences, FiniteSets, TLC

\* ---------------------------------------------------------------- bounds
MaxCycles == 3
MaxEntries == 2
MaxRows == 3
MaxItems == 3

\* ------------------------------------------------------- python values
Num(n) == [k |-> "num", n |-> n]
None == [k |-> "None", n |-> 0]
NaN == [k |-> "NaN", n |-> 0]
EmptyCell == [k |-> "", n |-> 0]
NoChannel == [k |-> "no key", n |-> 0]
NoTimestamp == "<no key>"

Timestamps == {"2024-06-20T00:00:00Z", "2024-06-21T00:00:00Z"}
Readings == {Num(10)}

\* the values-objects of an entry: {"timestamp": .., "s_d0": ..}, either key
\* possibly missing
ValuesObjects ==
  {[timestamp |-> t, s_d0 |-> v] : t \in Timestamps, v \in Readings \cup {NoChannel}}
    \cup {[timestamp |-> NoTimestamp, s_d0 |-> Num(10)]}

SeqUpTo(S, n) == UNION {[1..k -> S] : k \in 0..n}

\* an entry is a dict {entryKey: values}, a feed a dict {source: [entry, ..]};
\* dicts are the sequences of their values in insertion order.  The API
\* answers the request for one device with no feed or with one feed of one
\* source; a body without the 'feeds' key is NoFeedsPayload.
EntryDicts == {<<v>> : v \in ValuesObjects}
FeedDicts == {<<es>> : es \in SeqUpTo(EntryDicts, MaxEntries)}
NoFeedsPayload == [has_feeds |-> FALSE, feeds |-> <<>>]
Payloads ==
  {[has_feeds |-> TRUE, feeds |-> fs] : fs \in {<<>>} \cup {<<f>> : f \in FeedDicts}}
    \cup {NoFeedsPayload}

\* -------------------------------------------------------- flatten_data
RECURSIVE Concat(_)
Concat(ss) == IF ss = <<>> THEN <<>> ELSE Head(ss) \o Concat(Tail(ss))

\* the values-objects in the order of the four nested loops (lines 86-89)
LeafValues(feeds) == Concat(Concat(Concat(feeds)))

flattened_entry(values) ==
  [timestamp |-> values.timestamp,
   pm25 |-> IF values.s_d0 = NoChannel THEN None ELSE values.s_d0]

\* flatten_data with values[pm25_sensor] in the place of values.get(..)
flatten_data_strict(feeds) ==
  LET leaves == LeafValues(feeds)
  IN  [raised |-> \E i \in 1..Len(leaves) :
                    leaves[i].timestamp = NoTimestamp \/ leaves[i].s_d0 = NoChannel,
       rows |-> [i \in 1..Len(leaves) |-> flattened_entry(leaves[i])]]

\* values['timestamp'] raises KeyError on a values-object without the key
flatten_data(feeds) ==
  LET leaves == LeafValues(feeds)
  IN  [raised |-> \E i \in 1..Len(leaves) : leaves[i].timestamp = NoTimestamp,
       rows |-> [i \in 1..Len(leaves) |-> flattened_entry(leaves[i])]]

\* pd.DataFrame(list of dicts): no rows gives a frame without columns
DataFrame(rows) ==
  [columns |-> IF rows = <<>> THEN <<>> ELSE <<"timestamp", "PM2.5">>,
   rows |-> rows]

\* ------------------------------------------------------ CSV round trip
NoFile == [exists |-> FALSE, header |-> <<>>, rows |-> <<>>]
TruncatedFile == [exists |-> TRUE, header |-> <<>>, rows |-> <<>>]

csv_cell(v) == IF v.k = "num" THEN v ELSE EmptyCell
csv_value(c) == IF c.k = "num" THEN c ELSE NaN

\* DataFrame.to_csv(path, index=False): the header line, then a line per row
to_csv(frame) ==
  [exists |-> TRUE,
   header |-> frame.columns,
   rows |-> [i \in 1..Len(frame.rows) |->
              [timestamp |-> frame.rows[i].timestamp,
               pm25 |-> csv_cell(frame.rows[i].pm25)]]]

\* pd.read_csv(path): EmptyDataError on a file without a header line
read_csv(f) ==
  [raised |-> f.header = <<>>,
   columns |-> f.header,
   rows |-> [i \in 1..Len(f.rows) |->
              [timestamp |-> f.rows[i].timestamp,
               pm25 |-> csv_value(f.rows[i].pm25)]]]

TimestampsOf(rows) == {rows[i].timestamp : i \in 1..Len(rows)}

\* frame.drop_duplicates('timestamp'): the first row of every timestamp
RECURSIVE drop_duplicates(_, _)
drop_duplicates(rows, seen) ==
  IF rows = <<>> THEN <<>>
  ELSE IF Head(rows).timestamp \in seen THEN drop_duplicates(Tail(rows), seen)
  ELSE <<Head(rows)>> \o drop_duplicates(Tail(rows), seen \cup {Head(rows).timestamp})

\* the new rows with the rows of the batch deduplicated against each other
new_rows_unique(frame, existing) ==
  drop_duplicates(
    SelectSeq(frame.rows, LAMBDA r : r.timestamp \notin TimestampsOf(existing.rows)), {})

\* df[~df['timestamp'].isin(existing_df['timestamp'])]
new_rows(frame, existing) ==
  SelectSeq(frame.rows, LAMBDA r : r.timestamp \notin TimestampsOf(existing.rows))

\* the concatenation with its arguments swapped
concat_new_first(existing, rows) ==
  [columns |-> existing.columns, rows |-> rows \o existing.rows]

\* the concatenation that loses the new rows
concat_existing_only(existing, rows) ==
  [columns |-> existing.columns, rows |-> existing.rows]

\* pd.concat([existing_df, new_rows]).reset_index(drop=True)
concat(existing, rows) ==
  [columns |-> existing.columns, rows |-> existing.rows \o rows]

\* ---------------------------------------------------- save_data_to_csv
\* io is the answer of the file system to this call: "ok", "unreadable"
\* (read_csv raises OSError) or "unwritable" (to_csv raises OSError).
\* The result: the exception raised ("" if none), the returned flag, whether
\* the file is created by this call, and the file once the write is through.
Raised(e, f) == [exc |-> e, ret |-> FALSE, created |-> FALSE, file |-> f]
Returned(flag, made, f) == [exc |-> "", ret |-> flag, created |-> made, file |-> f]

\* the creation of the file with the batch deduplicated first
create_csv_unique(frame, f, io) ==
  IF io = "unwritable"
  THEN Raised("OSError", f)
  ELSE Returned(TRUE, TRUE,
                to_csv([columns |-> frame.columns, rows |-> drop_duplicates(frame.rows, {})]))

\* lines 104-108: no file yet, the batch is written as it is
create_csv(frame, f, io) ==
  IF io = "unwritable"
  THEN Raised("OSError", f)
  ELSE Returned(TRUE, TRUE, to_csv(frame))

\* lines 109-119: the rows of the batch whose timestamp the file lacks are
\* appended and the whole file is written again
update_csv(frame, f, io) ==
  LET existing_df == read_csv(f)
  IN  IF io = "unreadable" THEN Raised("OSError", f)
      ELSE IF existing_df.raised THEN Raised("EmptyDataError", f)
      ELSE IF \A i \in 1..Len(frame.columns) : frame.columns[i] # "timestamp"
           THEN Raised("KeyError", f)
      ELSE LET new == new_rows(frame, existing_df)
           IN  IF new # <<>>
               THEN IF io = "unwritable"
                    THEN Raised("OSError", f)
                    ELSE Returned(TRUE, FALSE, to_csv(concat(existing_df, new)))
               ELSE Returned(FALSE, FALSE, f)

save_data_to_csv(frame, f, io) ==
  IF ~f.exists THEN create_csv(frame, f, io) ELSE update_csv(frame, f, io)

\* ---------------------------------------------------------- analyze_data
THRESHOLD == 35

\* data['timestamp'].dt.date: the calendar date of a timestamp, as given
DateOf(t) ==
  CASE t = "2024-06-20T00:00:00Z" -> "2024-06-20"
    [] t = "2024-06-20T12:00:00Z" -> "2024-06-20"
    [] t = "2024-06-21T00:00:00Z" -> "2024-06-21"
    [] OTHER -> "NaT"

RECURSIVE sum_values(_)
sum_values(rows) ==
  IF rows = <<>> THEN 0 ELSE Head(rows).pm25.n + sum_values(Tail(rows))

\* agg(['max', 'min', 'mean']) of one group: absent values are skipped, a
\* group without a value gives NaN; the mean is kept as sum and count
aggregate(rows) ==
  LET valued == SelectSeq(rows, LAMBDA r : r.pm25.k = "num")
      ns == {valued[i].pm25.n : i \in 1..Len(valued)}
  IN  IF valued = <<>>
      THEN [max |-> NaN, min |-> NaN, sum |-> 0, count |-> 0]
      ELSE [max |-> Num(CHOOSE x \in ns : \A y \in ns : y <= x),
            min |-> Num(CHOOSE x \in ns : \A y \in ns : x <= y),
            sum |-> sum_values(valued),
            count |-> Len(valued)]

\* data.groupby('date')['PM2.5'].agg(..): one DailyStat per date present
daily_stats_of(rows) ==
  [d \in {DateOf(rows[i].timestamp) : i \in 1..Len(rows)} |->
     aggregate(SelectSeq(rows, LAMBDA r : DateOf(r.timestamp) = d))]

\* the comparison of line 126 with >= in the place of >
exceeds_or_equals(v) == v.k = "num" /\ v.n >= THRESHOLD

\* data['PM2.5'] > THRESHOLD: False for None and for NaN
exceeds(v) == v.k = "num" /\ v.n > THRESHOLD

NoAnalysis ==
  [exc |-> "", series |-> <<>>, daily_stats |-> [d \in {} |-> NaN], above |-> <<>>]

\* analyze_data(data): data['timestamp'] raises KeyError on a frame without
\* columns.  A column of None only has dtype object; whether the mean of
\* such a column is NaN or a TypeError depends on the pandas installed, and
\* agg is the answer of the library: "NaN" or "TypeError".  (The function
\* also turns the timestamp column of the frame into datetimes and adds the
\* date column; the frame is not used for the file after that.)
analyze_data(frame, agg) ==
  IF frame.columns = <<>>
  THEN [NoAnalysis EXCEPT !.exc = "KeyError"]
  ELSE IF agg = "TypeError" /\ \A i \in 1..Len(frame.rows) : frame.rows[i].pm25.k # "num"
  THEN [NoAnalysis EXCEPT !.exc = "TypeError"]
  ELSE [exc |-> "",
        series |-> frame.rows,
        daily_stats |-> daily_stats_of(frame.rows),
        above |-> SelectSeq(frame.rows, LAMBDA r : exceeds(r.pm25))]

\* a failed fetch tried again at once, without the sleep of line 237
after_fetch_retry(d) == IF ~d.ok THEN "fetch" ELSE "flatten"

\* lines 236-238: where main() goes on after fetch_data
after_fetch(d) == IF ~d.ok THEN "sleep" ELSE "flatten"

\* ----------------------------------------------------------------- state
VARIABLES
  pc,            \* position in main(): fetch, flatten, save, write, analyze, report, sleep, done
  term,          \* the handler that ended the script: "", "KeyboardInterrupt", "Exception"
  exc,           \* the exception that left main() in this cycle, "" if none
  csv,           \* the CSV file on disk
  data,          \* the payload returned by fetch_data in this cycle
  df,            \* the DataFrame of this cycle's batch
  wbuf,          \* the part of a to_csv in progress that is not yet on disk
  ret,           \* what save_data_to_csv returned in this cycle: none, True, False
  persisted,     \* the file as it was when save_data_to_csv was called
  log,           \* the messages logged so far
  fetches,       \* number of calls of fetch_data
  sleeps,        \* number of calls of time.sleep(CHECK_INTERVAL)
  reports,       \* number of PDF reports generated
  cycle_reports, \* PDF reports generated since the last fetch
  writes,        \* number of times to_csv has opened the CSV file for writing
  analysis       \* what analyze_data returned in this cycle

vars == <<pc, term, exc, csv, data, df, wbuf, ret, persisted, log, fetches, sleeps,
          reports, cycle_reports, writes, analysis>>

NoData == [ok |-> FALSE, json |-> NoFeedsPayload]
NoFrame == DataFrame(<<>>)
NoWrite == [header |-> <<>>, rows |-> <<>>, header_done |-> TRUE, created |-> FALSE]

Init ==
  /\ pc = "fetch"
  /\ term = ""
  /\ exc = ""
  /\ csv = NoFile
  /\ data = NoData
  /\ df = NoFrame
  /\ wbuf = NoWrite
  /\ ret = "none"
  /\ persisted = NoFile
  /\ log = <<>>
  /\ fetches = 0
  /\ sleeps = 0
  /\ reports = 0
  /\ cycle_reports = 0
  /\ writes = 0
  /\ analysis = NoAnalysis

\* an exception that is logged and skipped, the loop going on
Raise_and_continue(e, messages) ==
  /\ pc' = "sleep"
  /\ term' = term
  /\ exc' = e
  /\ log' = messages \o <<"An unexpected error occurred">>

\* exception e leaves main(): the handler of line 268 logs it and the script
\* ends
Raise(e, messages) ==
  /\ pc' = "done"
  /\ term' = "Exception"
  /\ exc' = e
  /\ log' = messages \o <<"An unexpected error occurred">>

\* fetch_data: the answer of the API, None on a RequestException (logged)
fetch_data(answer) == IF answer.ok THEN answer ELSE NoData

\* lines 235-238
main_fetch ==
  /\ pc = "fetch"
  /\ fetches < MaxCycles
  /\ fetches' = fetches + 1
  /\ ret' = "none"
  /\ df' = NoFrame
  /\ cycle_reports' = 0
  /\ analysis' = NoAnalysis
  /\ \E answer \in {[ok |-> TRUE, json |-> p] : p \in Payloads} \cup {NoData} :
       /\ data' = fetch_data(answer)
       /\ log' = IF answer.ok THEN log ELSE Append(log, "Error fetching data")
       /\ pc' = after_fetch(data')
  /\ UNCHANGED <<term, exc, csv, wbuf, persisted, sleeps, reports, writes>>

\* lines 241-242
main_flatten ==
  /\ pc = "flatten"
  /\ LET flattened_data == flatten_data(data.json.feeds)
     IN  IF ~data.json.has_feeds \/ flattened_data.raised
         THEN Raise("KeyError", log) /\ df' = df
         ELSE /\ df' = DataFrame(flattened_data.rows)
              /\ pc' = "save"
              /\ UNCHANGED <<term, exc, log>>
  /\ UNCHANGED <<csv, data, wbuf, ret, persisted, fetches, sleeps, reports, cycle_reports,
                 writes, analysis>>

\* line 245: the call of save_data_to_csv up to its return without a write,
\* or up to the opening of the file by to_csv, which truncates it
main_save ==
  /\ pc = "save"
  /\ persisted' = csv
  /\ \E io \in {"ok", "unreadable", "unwritable"} :
       LET r == save_data_to_csv(df, csv, io)
       IN  IF r.exc # ""
           THEN Raise(r.exc, log) /\ UNCHANGED <<csv, wbuf, ret, writes>>
           ELSE IF r.ret
                THEN /\ csv' = TruncatedFile
                     /\ wbuf' = [header |-> r.file.header, rows |-> r.file.rows,
                                 header_done |-> FALSE, created |-> r.created]
                     /\ writes' = writes + 1
                     /\ pc' = "write"
                     /\ UNCHANGED <<term, exc, log, ret>>
                ELSE /\ ret' = "False"
                     /\ pc' = "sleep"
                     /\ UNCHANGED <<term, exc, log, csv, wbuf, writes>>
  /\ UNCHANGED <<data, df, fetches, sleeps, reports, cycle_reports, analysis>>

\* to_csv writes the header line, then the rows one after the other
to_csv_write ==
  /\ pc = "write"
  /\ \/ /\ ~wbuf.header_done
        /\ csv' = [csv EXCEPT !.header = wbuf.header]
        /\ wbuf' = [wbuf EXCEPT !.header_done = TRUE]
     \/ /\ wbuf.header_done
        /\ wbuf.rows # <<>>
        /\ csv' = [csv EXCEPT !.rows = Append(@, Head(wbuf.rows))]
        /\ wbuf' = [wbuf EXCEPT !.rows = Tail(@)]
  /\ UNCHANGED <<pc, term, exc, data, df, ret, persisted, log, fetches, sleeps, reports,
                 cycle_reports, writes, analysis>>

\* to_csv is through: lines 106-108 or line 118, back in main with True
to_csv_close ==
  /\ pc = "write"
  /\ wbuf.header_done
  /\ wbuf.rows = <<>>
  /\ log' = IF wbuf.created THEN Append(log, "CSV file created.") ELSE log
  /\ wbuf' = NoWrite
  /\ ret' = "True"
  /\ pc' = "analyze"
  /\ UNCHANGED <<term, exc, csv, data, df, persisted, fetches, sleeps, reports,
                 cycle_reports, writes, analysis>>

\* lines 246-251
main_analyze ==
  /\ pc = "analyze"
  /\ \E agg \in {"NaN", "TypeError"} :
       LET updated == Append(log, "CSV updated with new sensor data")
           result == analyze_data(df, agg)
       IN  IF result.exc # ""
           THEN Raise(result.exc, updated) /\ analysis' = analysis
           ELSE /\ analysis' = result
                /\ pc' = "report"
                /\ log' = updated
                /\ UNCHANGED <<term, exc>>
  /\ UNCHANGED <<csv, data, df, wbuf, ret, persisted, fetches, sleeps, reports,
                 cycle_reports, writes>>

\* the report followed by the next fetch without the sleep of line 260
main_report_no_sleep ==
  /\ pc = "report"
  /\ reports' = reports + 1
  /\ cycle_reports' = cycle_reports + 1
  /\ log' = Append(log, "PDF report generated")
  /\ pc' = "fetch"
  /\ UNCHANGED <<term, exc, csv, data, df, wbuf, ret, persisted, fetches, sleeps, writes,
                 analysis>>

\* lines 254-257: generate_plot and generate_pdf_report
main_report ==
  /\ pc = "report"
  /\ reports' = reports + 1
  /\ cycle_reports' = cycle_reports + 1
  /\ log' = Append(log, "PDF report generated")
  /\ pc' = "sleep"
  /\ UNCHANGED <<term, exc, csv, data, df, wbuf, ret, persisted, fetches, sleeps, writes,
                 analysis>>

\* time.sleep(CHECK_INTERVAL), line 237 or line 260, then the next iteration
main_sleep ==
  /\ pc = "sleep"
  /\ sleeps' = sleeps + 1
  /\ pc' = "fetch"
  /\ UNCHANGED <<term, exc, csv, data, df, wbuf, ret, persisted, log, fetches, reports,
                 cycle_reports, writes, analysis>>

\* Ctrl+C at any point of main(): lines 265-267
KeyboardInterrupt ==
  /\ pc # "done"
  /\ pc' = "done"
  /\ term' = "KeyboardInterrupt"
  /\ log' = Append(log, "Process interrupted by user.")
  /\ UNCHANGED <<exc, csv, data, df, wbuf, ret, persisted, fetches, sleeps, reports,
                 cycle_reports, writes, analysis>>

Next ==
  \/ main_fetch
  \/ main_flatten
  \/ main_save
  \/ to_csv_write
  \/ to_csv_close
  \/ main_analyze
  \/ main_report
  \/ main_sleep
  \/ KeyboardInterrupt

Spec == Init /\ [][Next]_vars

\* ------------------------------------------- analyze_data on its own
\* The batches analysed: up to MaxRows rows on two dates, with the value
\* absent, below, at and above the threshold.
AnalyzeTimestamps ==
  {"2024-06-20T00:00:00Z", "2024-06-20T12:00:00Z", "2024-06-21T00:00:00Z"}
AnalyzeValues == {None, Num(THRESHOLD - 1), Num(THRESHOLD), Num(THRESHOLD + 1)}
AnalyzeBatches ==
  SeqUpTo([timestamp : AnalyzeTimestamps, pm25 : AnalyzeValues], MaxRows)

\* the payload of one feed and one source that flattens to the rows
PayloadOf(rows) ==
  [has_feeds |-> TRUE,
   feeds |-> IF rows = <<>> THEN <<>>
             ELSE << << [i \in 1..Len(rows) |->
                          << [timestamp |-> rows[i].timestamp,
                              s_d0 |-> IF rows[i].pm25 = None THEN NoChannel
                                       ELSE rows[i].pm25] >>] >> >>]

\* main() at line 246 of its first cycle: the batch was fetched, flattened
\* and written to a new file
InitAnalyze ==
  \E rows \in AnalyzeBatches :
    /\ pc = "analyze"
    /\ term = ""
    /\ exc = ""
    /\ data = [ok |-> TRUE, json |-> PayloadOf(rows)]
    /\ df = DataFrame(rows)
    /\ csv = to_csv(DataFrame(rows))
    /\ wbuf = NoWrite
    /\ ret = "True"
    /\ persisted = NoFile
    /\ log = <<"CSV file created.">>
    /\ fetches = 1
    /\ sleeps = 0
    /\ reports = 0
    /\ cycle_reports = 0
    /\ writes = 1
    /\ analysis = NoAnalysis

NextAnalyze ==
  \/ main_analyze
  \/ main_report

AnalyzeSpec == InitAnalyze /\ [][NextAnalyze]_vars

\* ------------------------------------------- flatten_data on its own
\* The payloads flattened: every nesting of feeds, sources, entries and
\* entry keys that MaxItems additions build.  An addition opens a new feed
\* (level 0), a new source in the last feed (1), a new entry in the last
\* source (2) or a new key in the last entry (3), holding one values-object
\* or, above level 3, nothing.
Items ==
  {[leaf |-> <<v>>, level |-> n] : v \in ValuesObjects, n \in 0..3}
    \cup {[leaf |-> <<>>, level |-> n] : n \in 0..2}

add_item(feeds, item) ==
  LET nf == Len(feeds)
      ns == IF nf = 0 THEN 0 ELSE Len(feeds[nf])
      ne == IF ns = 0 THEN 0 ELSE Len(feeds[nf][ns])
      deepest == IF nf = 0 THEN 0 ELSE IF ns = 0 THEN 1 ELSE IF ne = 0 THEN 2 ELSE 3
      level == IF item.level < deepest THEN item.level ELSE deepest
      entry == item.leaf
      source == IF item.leaf = <<>> THEN <<>> ELSE <<entry>>
      feed == IF item.leaf = <<>> THEN <<>> ELSE <<source>>
  IN  CASE level = 0 -> Append(feeds, feed)
        [] level = 1 -> [feeds EXCEPT ![nf] = Append(@, source)]
        [] level = 2 -> [feeds EXCEPT ![nf][ns] = Append(@, entry)]
        [] OTHER -> [feeds EXCEPT ![nf][ns][ne] = @ \o item.leaf]

RECURSIVE build_feeds(_, _)
build_feeds(items, feeds) ==
  IF items = <<>> THEN feeds
  ELSE build_feeds(Tail(items), add_item(feeds, Head(items)))

NestedPayloads ==
  {[has_feeds |-> TRUE, feeds |-> build_feeds(items, <<>>)] :
     items \in SeqUpTo(Items, MaxItems)}
    \cup {NoFeedsPayload}

\* main() at line 241 of its first cycle: the payload was fetched
InitFlatten ==
  \E p \in NestedPayloads :
    /\ pc = "flatten"
    /\ term = ""
    /\ exc = ""
    /\ data = [ok |-> TRUE, json |-> p]
    /\ df = NoFrame
    /\ csv = NoFile
    /\ wbuf = NoWrite
    /\ ret = "none"
    /\ persisted = NoFile
    /\ log = <<>>
    /\ fetches = 1
    /\ sleeps = 0
    /\ reports = 0
    /\ cycle_reports = 0
    /\ writes = 0
    /\ analysis = NoAnalysis

NextFlatten == main_flatten

FlattenSpec == InitFlatten /\ [][NextFlatten]_vars

\* ------------------------------------------------------------ properties
\* a Reading: the timestamp and the value, <<>> when the value is absent
\* (None in a batch, an empty cell in the file, NaN in a frame read back)
ValueOf(v) == IF v.k = "num" THEN <<v.n>> ELSE <<>>
ReadingsOf(rows) ==
  [i \in 1..Len(rows) |-> [timestamp |-> rows[i].timestamp, value |-> ValueOf(rows[i].pm25)]]

IsPrefix(s, t) == Len(s) <= Len(t) /\ \A i \in 1..Len(s) : s[i] = t[i]

\* the rows of batch B whose timestamp no row of S has, in batch order
AbsentFrom(S, B) ==
  SelectSeq(B, LAMBDA r : \A i \in 1..Len(S) : S[i].timestamp # r.timestamp)

\* the payload lacks 'feeds' or one of its values-objects lacks 'timestamp'
Malformed(p) ==
  \/ ~p.has_feeds
  \/ \E i \in 1..Len(p.feeds) : \E j \in 1..Len(p.feeds[i]) :
       \E k \in 1..Len(p.feeds[i][j]) : \E l \in 1..Len(p.feeds[i][j][k]) :
         p.feeds[i][j][k][l].timestamp = NoTimestamp

\* C1: whenever a batch is about to be merged into the file on a working
\* file system and that merge goes through, merging the same batch once more
\* returns False and leaves the file as the first merge left it.
C1_IdempotentMerge ==
  pc = "save" =>
    LET once == save_data_to_csv(df, csv, "ok")
        again == save_data_to_csv(df, once.file, "ok")
    IN  once.exc = "" => (again.exc = "" /\ ~again.ret /\ again.file = once.file)

\* C2: no two rows of the CSV file have the same timestamp, in any state.
C2_NoDuplicateTimestamps ==
  \A i, j \in 1..Len(csv.rows) : i # j => csv.rows[i].timestamp # csv.rows[j].timestamp

\* C3: once save_data_to_csv has returned, it has returned True exactly if
\* some row of the batch has a timestamp that no row of the file had when
\* it was called.
C3_ChangeDetection ==
  ret # "none" =>
    ((ret = "True") <=>
       \E i \in 1..Len(df.rows) : df.rows[i].timestamp \notin TimestampsOf(persisted.rows))

\* C4: once save_data_to_csv has returned, the file holds the Readings it
\* held at the call, in their order, followed by the Readings of the batch
\* whose timestamp the file lacked, in batch order; and whenever no write is
\* under way the file exists if it existed at the last call and its rows
\* start with the rows it had then.  (By induction over the calls, the file
\* at an earlier call is a prefix of the file after every later call.)
C4_OrderPreservation ==
  /\ ret # "none" =>
       ReadingsOf(csv.rows) =
         ReadingsOf(persisted.rows) \o ReadingsOf(AbsentFrom(persisted.rows, df.rows))
  /\ wbuf = NoWrite =>
       /\ persisted.exists => csv.exists
       /\ IsPrefix(persisted.rows, csv.rows)

\* a merge has extended an existing file by the one new row of a batch of
\* two, and the cycle is through
C4_Witness ==
  /\ pc = "sleep"
  /\ ret = "True"
  /\ persisted.rows # <<>>
  /\ Len(df.rows) = 2
  /\ Len(csv.rows) = Len(persisted.rows) + 1
  /\ csv.rows[1].timestamp # csv.rows[Len(csv.rows)].timestamp

\* C5: at the end of every cycle (the sleep, or the exception that ends the
\* script) exactly one report was generated in the cycle if
\* save_data_to_csv returned True in it, and none otherwise.
C5_ReportIffChanged ==
  (pc = "sleep" \/ (pc = "done" /\ term = "Exception")) =>
    cycle_reports = (IF ret = "True" THEN 1 ELSE 0)

\* C6: merging an empty batch on a working file system raises nothing,
\* returns False and leaves the file, existing or not, as it is.
C6_EmptyBatchNoOp ==
  (pc = "save" /\ df.rows = <<>>) =>
    LET r == save_data_to_csv(df, csv, "ok")
    IN  r.exc = "" /\ ~r.ret /\ r.file = csv

\* C7: once save_data_to_csv has returned for a non-empty batch and no file
\* existed at the call, it has returned True and the file has the two
\* columns and exactly the Readings of the batch, row for row.
C7_FirstRunBootstrap ==
  (ret # "none" /\ ~persisted.exists /\ df.rows # <<>>) =>
    /\ ret = "True"
    /\ csv.exists
    /\ csv.header = <<"timestamp", "PM2.5">>
    /\ ReadingsOf(csv.rows) = ReadingsOf(df.rows)

\* the first merge has written a batch of two rows with the same timestamp
C7_Witness ==
  /\ ret = "True"
  /\ ~persisted.exists
  /\ Len(df.rows) = 2
  /\ df.rows[1].timestamp = df.rows[2].timestamp
  /\ Len(csv.rows) = 2

\* C8: a failed fetch logs the error and goes to the sleep with the file,
\* the reports and the script's run untouched and without a merge; from
\* that sleep the only way on, short of Ctrl+C, is one sleep and then the
\* next fetch; and in all states every cycle begun before the current one
\* has slept exactly once.
C8_NetworkFailureSkipsCycle ==
  /\ [][(pc = "fetch" /\ fetches' = fetches + 1 /\ ~data'.ok) =>
          /\ pc' = "sleep"
          /\ term' = ""
          /\ log' = Append(log, "Error fetching data")
          /\ ret' = "none"
          /\ <<csv, wbuf, reports, sleeps>>' = <<csv, wbuf, reports, sleeps>>]_vars
  /\ [][(pc = "sleep" /\ ~data.ok /\ term' # "KeyboardInterrupt") =>
          /\ pc' = "fetch"
          /\ sleeps' = sleeps + 1
          /\ <<csv, wbuf, reports, fetches, ret, log, term>>'
               = <<csv, wbuf, reports, fetches, ret, log, term>>]_vars
  /\ [](pc # "done" => sleeps = (IF pc = "fetch" THEN fetches ELSE fetches - 1))

\* the loop is back at the fetch after a first cycle whose fetch failed
C8_Witness ==
  /\ pc = "fetch"
  /\ ~data.ok
  /\ fetches = 1
  /\ sleeps = 1
  /\ log = <<"Error fetching data">>
  /\ ~csv.exists

\* C9: the cycle of a malformed payload goes to the sleep, with the file
\* unchanged and the script still running.
C9_MalformedPayloadRecovered ==
  [][(pc = "flatten" /\ Malformed(data.json) /\ term' # "KeyboardInterrupt") =>
       (pc' = "sleep" /\ term' = "" /\ csv' = csv)]_vars

\* C10: a merge in which reading or writing the file raises OSError goes to
\* the sleep with the script still running.
C10_StorageFailureSkipsCycle ==
  [][(pc = "save" /\ exc' = "OSError") => (pc' = "sleep" /\ term' = "")]_vars

\* the number of rows with timestamp t
CountOf(rows, t) == Cardinality({i \in 1..Len(rows) : rows[i].timestamp = t})

\* the number of times message m was logged
Logged(m) == Cardinality({i \in 1..Len(log) : log[i] = m})

\* C11: the file on disk changes only in a single step that installs the
\* complete merged Series, so that an interrupt at any point leaves either
\* the Series of before the write or the complete merged one.
C11_AtomicCommit ==
  [][csv' # csv => (pc = "save" /\ csv' = save_data_to_csv(df, csv, "ok").file)]_vars

\* C12: in a cycle whose report was generated, the Readings handed to
\* analyze_data are all the Readings of the file after the merge.
C12_AnalyzerGetsMergedSeries ==
  (ret = "True" /\ cycle_reports = 1) =>
    ReadingsOf(analysis.series) = ReadingsOf(csv.rows)

\* C13: a merge on a working file system of a batch without a timestamp
\* the existing file lacks returns False and neither opens the file for
\* writing nor changes it.
C13_NoRewriteWhenUnchanged ==
  [][(/\ pc = "save"
      /\ csv.exists
      /\ AbsentFrom(csv.rows, df.rows) = <<>>
      /\ term' # "KeyboardInterrupt"
      /\ exc' # "OSError") =>
       (ret' = "False" /\ csv' = csv /\ writes' = writes /\ term' = "")]_vars

\* C14: once save_data_to_csv has returned, the timestamps of the file are
\* those it had at the call together with those of the batch.
C14_NoRecordLost ==
  ret # "none" =>
    TimestampsOf(csv.rows) = TimestampsOf(persisted.rows) \cup TimestampsOf(df.rows)

\* a merge of a batch with one known and one new timestamp into an existing
\* file has returned
C14_Witness ==
  /\ ret = "True"
  /\ persisted.rows # <<>>
  /\ TimestampsOf(df.rows) \cap TimestampsOf(persisted.rows) # {}
  /\ TimestampsOf(df.rows) \ TimestampsOf(persisted.rows) # {}
  /\ Len(csv.rows) > Len(persisted.rows)

\* C15: an exception that leaves main() is logged by the top-level handler
\* and ends the script, Ctrl+C is logged and ends the script, the unexpected
\* error is logged exactly once and only then, and once the script has
\* ended nothing is fetched, merged, reported or logged any more.
C15_ErrorsStopTheLoop ==
  /\ [][exc' # exc =>
          /\ pc' = "done"
          /\ term' = "Exception"
          /\ log'[Len(log')] = "An unexpected error occurred"]_vars
  /\ [][(term = "" /\ term' = "KeyboardInterrupt") =>
          /\ pc' = "done"
          /\ log' = Append(log, "Process interrupted by user.")]_vars
  /\ [][pc = "done" => vars' = vars]_vars
  /\ [](/\ (pc = "done") = (term # "")
        /\ (exc # "") = (term = "Exception")
        /\ Logged("An unexpected error occurred") = (IF term = "Exception" THEN 1 ELSE 0)
        /\ Logged("Process interrupted by user.") = (IF term = "KeyboardInterrupt" THEN 1 ELSE 0))

\* an exception has ended the script after a completed cycle and with
\* cycles left to run
C15_Witness ==
  /\ pc = "done"
  /\ term = "Exception"
  /\ exc = "OSError"
  /\ sleeps = 1
  /\ fetches = 2
  /\ fetches < MaxCycles

\* C18: once save_data_to_csv has returned, every timestamp the file lacked
\* at the call has as many rows in the file as it has in the batch.
C18_BatchDuplicatesKept ==
  ret # "none" =>
    \A t \in TimestampsOf(df.rows) \ TimestampsOf(persisted.rows) :
      CountOf(csv.rows, t) = CountOf(df.rows, t)

\* a batch of two rows with the same new timestamp was appended to an
\* existing file
C18_Witness ==
  /\ ret = "True"
  /\ persisted.rows # <<>>
  /\ Len(df.rows) = 2
  /\ df.rows[1].timestamp = df.rows[2].timestamp
  /\ Len(csv.rows) = Len(persisted.rows) + 2

\* the order of the steps of one cycle
CycleOrder ==
  {<<"fetch", "flatten">>, <<"fetch", "sleep">>, <<"flatten", "save">>,
   <<"save", "write">>, <<"save", "sleep">>, <<"write", "analyze">>,
   <<"analyze", "report">>, <<"report", "sleep">>, <<"sleep", "fetch">>}

\* C19: a fetch starts only at the head of the loop, with no write under
\* way and every earlier cycle having slept once; the steps of a cycle
\* follow in order unless the script ends; and a sleep happens only at the
\* end of a cycle whose outcome is a failed fetch, no change, or a change
\* with its one report, and leads to the next fetch.
C19_SequentialCycles ==
  /\ [][fetches' # fetches =>
          /\ pc = "fetch"
          /\ fetches' = fetches + 1
          /\ sleeps = fetches
          /\ wbuf = NoWrite
          /\ pc' \in {"sleep", "flatten"}]_vars
  /\ [][pc' # pc => (<<pc, pc'>> \in CycleOrder \/ pc' = "done")]_vars
  /\ [][sleeps' # sleeps =>
          /\ pc = "sleep"
          /\ pc' = "fetch"
          /\ sleeps' = sleeps + 1
          /\ sleeps' = fetches
          /\ \/ ~data.ok /\ ret = "none" /\ cycle_reports = 0
             \/ data.ok /\ ret = "False" /\ cycle_reports = 0
             \/ data.ok /\ ret = "True" /\ cycle_reports = 1]_vars

\* three cycles are through: a failed fetch, a change with its report, and
\* no change
C19_Witness ==
  /\ pc = "fetch"
  /\ fetches = 3
  /\ sleeps = 3
  /\ reports = 1
  /\ ret = "False"
  /\ Logged("Error fetching data") = 1

\* the positions of the rows of the analysed series that exceed the threshold
Exceeding(rows) ==
  {i \in 1..Len(rows) : rows[i].pm25.k = "num" /\ rows[i].pm25.n > THRESHOLD}

\* C16: once analyze_data has returned, its exceedances are the rows of the
\* analysed series whose value is a number strictly greater than the
\* threshold, each once and in the order of the series; a row with the
\* value at the threshold or absent is not among them.
C16_ExceedancesStrictlyAbove ==
  pc \in {"report", "sleep"} =>
    LET above == analysis.above
        rows == analysis.series
        over == Exceeding(rows)
    IN  /\ rows = df.rows
        /\ Len(above) = Cardinality(over)
        /\ \A i \in over : above[Cardinality({j \in over : j <= i})] = rows[i]
        /\ \A n \in 1..Len(above) :
             above[n].pm25.k = "num" /\ above[n].pm25.n # THRESHOLD

\* a series with a value absent, one at the threshold and one above it was
\* analysed
C16_Witness ==
  /\ pc = "report"
  /\ Len(analysis.series) = 3
  /\ analysis.series[1].pm25 = None
  /\ analysis.series[2].pm25 = Num(THRESHOLD)
  /\ analysis.series[3].pm25 = Num(THRESHOLD + 1)
  /\ Len(analysis.above) = 1

\* the positions <<feed, source, entry, key>> of the values-objects of a
\* payload, and their order in the traversal
LeafPositions(feeds) ==
  {x \in (1..MaxItems) \X (1..MaxItems) \X (1..MaxItems) \X (1..MaxItems) :
     /\ x[1] <= Len(feeds)
     /\ x[2] <= Len(feeds[x[1]])
     /\ x[3] <= Len(feeds[x[1]][x[2]])
     /\ x[4] <= Len(feeds[x[1]][x[2]][x[3]])}

Before(x, y) ==
  \E n \in 1..4 : x[n] < y[n] /\ \A m \in 1..(n - 1) : x[m] = y[m]

\* C17: once flatten_data has returned, the batch has one row per
\* values-object of the payload, in the order feeds, sources, entries, entry
\* keys, with the timestamp of the values-object and its channel value, absent
\* if it has none (so that empty feeds give an empty batch); and
\* flatten_data returns whenever every values-object has a timestamp.
C17_FlattenerShape ==
  /\ [](pc = "save" =>
          LET feeds == data.json.feeds
              at == LeafPositions(feeds)
          IN  /\ Len(df.rows) = Cardinality(at)
              /\ \A x \in at :
                   LET n == Cardinality({y \in at : Before(y, x)}) + 1
                       values == feeds[x[1]][x[2]][x[3]][x[4]]
                   IN  /\ df.rows[n].timestamp = values.timestamp
                       /\ ValueOf(df.rows[n].pm25) =
                            (IF values.s_d0 = NoChannel THEN <<>> ELSE <<values.s_d0.n>>))
  /\ [][(pc = "flatten" /\ ~Malformed(data.json)) => pc' = "save"]_vars

\* a payload of two feeds was flattened to two rows, the first of them
\* without the channel
C17_Witness ==
  /\ pc = "save"
  /\ Len(data.json.feeds) = 2
  /\ Len(df.rows) = 2
  /\ df.rows[1].pm25 = None
  /\ df.rows[2].pm25 # None
  /\ df.rows[1].timestamp # df.rows[2].timestamp

TypeOK ==
  /\ pc \in {"fetch", "flatten", "save", "write", "analyze", "report", "sleep", "done"}
  /\ term \in {"", "KeyboardInterrupt", "Exception"}
  /\ exc \in {"", "KeyError", "EmptyDataError", "OSError", "TypeError"}
  /\ ret \in {"none", "True", "False"}
  /\ csv.exists \in BOOLEAN
  /\ fetches \in 0..MaxCycles
  /\ sleeps \in 0..MaxCycles
  /\ reports \in 0..MaxCycles
  /\ (pc = "done") = (term # "")
====
